---- MODULE Spec2Model ----
(***************************************************************************)
(* A model of primer_app_qt.py: the pure sequence functions, the primer    *)
(* design function design_primers, and the PrimerApp form that stores and  *)
(* shows its results.                                                      *)
(*                                                                         *)
(* A Python str is a sequence of one-character strings.  A Python int is   *)
(* an integer.  A Python float that round(x, 2) produced is the record     *)
(* [centi |-> h], h the value in hundredths.                               *)
(***************************************************************************)
EXTENDS Integers, Sequences, FiniteSets, TLC

VARIABLES
    seq, rc1, rc2, gc, seq2, gc2, spc,
    full_seq, target_seq, f_len, r_len, f_enzyme, r_enzyme, outcome, dpc,
    full_seq2, target_seq2, outcome2,
    seq_input, target_input, f_len_input, r_len_input, f_enzyme_box, r_enzyme_box,
    results, table, shown, last_ok

seqVars == <<seq, rc1, rc2, gc, seq2, gc2, spc>>
designVars == <<full_seq, target_seq, f_len, r_len, f_enzyme, r_enzyme, outcome, dpc>>
normVars == <<full_seq2, target_seq2, outcome2>>
appVars == <<seq_input, target_input, f_len_input, r_len_input, f_enzyme_box,
             r_enzyme_box, results, table, shown, last_ok>>
vars == <<seqVars, designVars, normVars, appVars>>

(***************************************************************************)
(* Characters and strings                                                  *)
(***************************************************************************)
Bases == {"A", "C", "G", "T"}
UpperLetters == {"A", "C", "G", "T", "N"}
LowerLetters == {"a", "c", "g", "t", "n"}
Letters == UpperLetters \cup LowerLetters
Whitespace == {" ", "\n"}

\* str.upper() on one character
UpperChar(c) ==
    CASE c = "a" -> "A"
      [] c = "c" -> "C"
      [] c = "g" -> "G"
      [] c = "t" -> "T"
      [] c = "n" -> "N"
      [] OTHER -> c

\* str.swapcase() on one character (the user's change of letter case)
SwapCaseChar(c) ==
    CASE c = "a" -> "A"
      [] c = "c" -> "C"
      [] c = "g" -> "G"
      [] c = "t" -> "T"
      [] c = "n" -> "N"
      [] c = "A" -> "a"
      [] c = "C" -> "c"
      [] c = "G" -> "g"
      [] c = "T" -> "t"
      [] c = "N" -> "n"
      [] OTHER -> c

Upper(s) == [i \in 1..Len(s) |-> UpperChar(s[i])]

\* re.sub(r"\s+", "", s)
RECURSIVE StripWhitespace(_)
StripWhitespace(s) ==
    IF s = <<>> THEN <<>>
    ELSE IF Head(s) \in Whitespace THEN StripWhitespace(Tail(s))
         ELSE <<Head(s)>> \o StripWhitespace(Tail(s))

Reverse(s) == [i \in 1..Len(s) |-> s[Len(s) + 1 - i]]

Min(a, b) == IF a < b THEN a ELSE b
Max(a, b) == IF a > b THEN a ELSE b

\* the index a slice bound stands for: negative bounds count from the end,
\* and every bound is clamped to 0..len
SliceIndex(n, k) == IF k < 0 THEN Max(n + k, 0) ELSE Min(k, n)

\* s[a:b]
Slice(s, a, b) == SubSeq(s, SliceIndex(Len(s), a) + 1, SliceIndex(Len(s), b))

\* sub occurs in s at the 0-based offset i
OccursAt(s, sub, i) ==
    /\ i >= 0
    /\ i + Len(sub) <= Len(s)
    /\ SubSeq(s, i + 1, i + Len(sub)) = sub

\* sub in s
Contains(s, sub) == \E i \in 0..(Len(s) - Len(sub)) : OccursAt(s, sub, i)

\* s.find(sub): the lowest 0-based offset, or -1
Find(s, sub) ==
    LET found == {i \in 0..(Len(s) - Len(sub)) : OccursAt(s, sub, i)}
    IN  IF found = {} THEN -1
        ELSE CHOOSE i \in found : \A j \in found : i <= j

\* s.count(c) for a one-character c
Count(s, cs) == Cardinality({i \in 1..Len(s) : s[i] \in cs})

\* round(num / den, 0) for num >= 0, den > 0: to nearest, ties to even (what
\* round((count / len) * 100, 2) gives, in hundredths, for len < 160)
RoundHalfEven(num, den) ==
    LET q == (2 * num + den) \div (2 * den)
        tie == (2 * num + den) % (2 * den) = 0
    IN  IF tie /\ q % 2 = 1 THEN q - 1 ELSE q

(***************************************************************************)
(* The pure functions                                                      *)
(***************************************************************************)
RESTRICTION_ENZYMES ==
    [e \in {"EcoRI", "BamHI", "HindIII", "XhoI", "NotI"} |->
        CASE e = "EcoRI" -> <<"G", "A", "A", "T", "T", "C">>
          [] e = "BamHI" -> <<"G", "G", "A", "T", "C", "C">>
          [] e = "HindIII" -> <<"A", "A", "G", "C", "T", "T">>
          [] e = "XhoI" -> <<"C", "T", "C", "G", "A", "G">>
          [] e = "NotI" -> <<"G", "C", "G", "G", "C", "C", "G", "C">>]

\* the order of the dictionary's keys, which is the order of a combo box's items
EnzymeItems == <<"EcoRI", "BamHI", "HindIII", "XhoI", "NotI">>

\* a translation table with one letter wrong: maketrans("ACGT", "TGCT")
Complement_WrongTable(c) ==
    CASE c = "A" -> "T"
      [] c = "C" -> "G"
      [] c = "G" -> "C"
      [] OTHER -> c

\* str.maketrans("ACGT", "TGCA") on one character
Complement(c) ==
    CASE c = "A" -> "T"
      [] c = "C" -> "G"
      [] c = "G" -> "C"
      [] c = "T" -> "A"
      [] OTHER -> c

reverse_complement(s) == Reverse([i \in 1..Len(s) |-> Complement(s[i])])

ZeroDivisionError == [error |-> "ZeroDivisionError"]

\* the count taken on seq instead of seq.upper()
calc_gc_content_NoUpper(s) ==
    IF Len(s) = 0 THEN ZeroDivisionError
    ELSE [centi |-> RoundHalfEven(Count(s, {"G", "C"}) * 10000, Len(s))]

calc_gc_content(s) ==
    IF Len(s) = 0 THEN ZeroDivisionError
    ELSE [centi |-> RoundHalfEven(Count(Upper(s), {"G", "C"}) * 10000, Len(s))]

\* round(64.9 + 41 * (cg - 16.4) / N, 2) in hundredths.  The float sum is not
\* the exact value, so where the exact value lies halfway between two
\* hundredths the float lies to one side of it: above it for every N and cg
\* with N < 56, except N = 40, cg = 39.
TmTiesDown == {<<40, 39>>}

RoundTm(N, cg) ==
    LET num == 6490 * N + 4100 * cg - 67240
        h == num \div N
        twice == 2 * (num % N)
    IN  IF twice > N THEN h + 1
        ELSE IF twice < N THEN h
        ELSE IF <<N, cg>> \in TmTiesDown THEN h ELSE h + 1

calc_tm(s) ==
    LET u == Upper(s)
        N == Len(u)
        at == Count(u, {"A"}) + Count(u, {"T"})
        cg == Count(u, {"G"}) + Count(u, {"C"})
    IN  IF N < 14 THEN 2 * at + 4 * cg
        ELSE [centi |-> RoundTm(N, cg)]

dimer_score(s) ==
    Cardinality({i \in 0..(Len(s) - 4) :
                    Contains(s, reverse_complement(Slice(s, i, i + 4)))})

hairpin_score(s) ==
    Cardinality({i \in 0..(Len(s) - 4) :
                    Slice(s, i, i + 4) = reverse_complement(Slice(s, i, i + 4))})

insert_re_site(primer, enzyme, direction) ==
    LET site == IF enzyme \in DOMAIN RESTRICTION_ENZYMES
                THEN RESTRICTION_ENZYMES[enzyme] ELSE <<>>
    IN  IF direction = "5'" THEN site \o primer ELSE primer \o site

(***************************************************************************)
(* design_primers                                                          *)
(***************************************************************************)
\* a Python int among the columns of a row
Int_(n) == [int |-> n]

\* a call's outcome: the value it returns or the exception it raises
Return(v) == [kind |-> "return", value |-> v]
Raise(exc, msg) == [kind |-> "raise", exc |-> exc, msg |-> msg]

MsgNotFound == "target sequence does not occur in the full sequence"
MsgFlank == "not enough room before and after for the primer lengths"
MsgCollision == "restriction enzyme site is duplicated in the primer"

\* the numeric columns keep their Python type: len and the scores are ints,
\* GC% is a float, Tm an int below 14 bases and a float from 14 on
Row(name, final) ==
    LET tm == calc_tm(final)
    IN  <<name, final, Int_(Len(final)), calc_gc_content(final),
          IF Len(final) < 14 THEN Int_(tm) ELSE tm,
          Int_(dimer_score(final)), Int_(hairpin_score(final))>>

\* whitespace removed, case left as typed
Normalize_NoUpper(s) == StripWhitespace(s)

Normalize(s) == StripWhitespace(Upper(s))

\* the check of the room before the target left out
InsufficientFlank_RightOnly(full, start, end, fl, rl) ==
    end + rl >= Len(full)

InsufficientFlank(full, start, end, fl, rl) ==
    start < fl \/ end + rl >= Len(full)

FCore(full, start, fl) == Slice(full, start - fl, start)

\* the window after the target taken as it is
RCore_Forward(full, end, rl) == Slice(full, end, end + rl)

RCore(full, end, rl) == reverse_complement(Slice(full, end, end + rl))

\* the operands of "in" the other way round
HasSite_Swapped(core, enzyme) == Contains(RESTRICTION_ENZYMES[enzyme], core)

\* RESTRICTION_ENZYMES[enzyme] in core
HasSite(core, enzyme) == Contains(core, RESTRICTION_ENZYMES[enzyme])

design_primers(full_seq_, target_seq_, f_len_, r_len_, f_enzyme_, r_enzyme_) ==
    LET full == Normalize(full_seq_)
        target == Normalize(target_seq_)
        start == Find(full, target)
        end == start + Len(target)
        f_core == FCore(full, start, f_len_)
        r_core == RCore(full, end, r_len_)
        f_final == insert_re_site(f_core, f_enzyme_, "5'")
        r_final == insert_re_site(r_core, r_enzyme_, "5'")
    IN  IF start = -1 THEN Raise("ValueError", MsgNotFound)
        ELSE IF InsufficientFlank(full, start, end, f_len_, r_len_)
        THEN Raise("ValueError", MsgFlank)
        ELSE IF f_enzyme_ \notin DOMAIN RESTRICTION_ENZYMES
        THEN Raise("KeyError", f_enzyme_)
        ELSE IF HasSite(f_core, f_enzyme_)
        THEN Raise("ValueError", MsgCollision)
        ELSE IF r_enzyme_ \notin DOMAIN RESTRICTION_ENZYMES
        THEN Raise("KeyError", r_enzyme_)
        ELSE IF HasSite(r_core, r_enzyme_)
        THEN Raise("ValueError", MsgCollision)
        ELSE Return(<<Row("Forward", f_final), Row("Reverse", r_final)>>)

(***************************************************************************)
(* Inputs                                                                  *)
(***************************************************************************)
MaxSeqLen == 3
MaxFrags == 3
MaxPrimerLen == 6
MaxRawLen == 4
MaxRawPrimerLen == 1
MaxSpinSteps == 1

Nothing == [none |-> TRUE]

RECURSIVE SeqsUpTo(_, _)
SeqsUpTo(S, n) ==
    IF n = 0 THEN {<<>>}
    ELSE LET shorter == SeqsUpTo(S, n - 1)
         IN  shorter \cup {<<c>> \o s : c \in S, s \in {t \in shorter : Len(t) = n - 1}}

RECURSIVE ConcatsUpTo(_, _)
ConcatsUpTo(F, n) ==
    IF n = 0 THEN {<<>>}
    ELSE LET fewer == ConcatsUpTo(F, n - 1)
         IN  fewer \cup {f \o s : f \in F, s \in fewer}

\* pieces a pasted gene sequence is made of: single bases in either case, the
\* EcoRI site, and the last six bases of the NotI site
Fragments ==
    {<<"A">>, <<"c">>, RESTRICTION_ENZYMES["EcoRI"],
     Slice(RESTRICTION_ENZYMES["NotI"], 2, 8)}

Sources == ConcatsUpTo(Fragments, MaxFrags)
Targets == {<<>>, <<"A">>, <<"c">>, <<"a", "C">>}
PrimerLens == 0..MaxPrimerLen
DesignEnzymes == {"EcoRI", "NotI"}

(***************************************************************************)
(* Calls of design_primers on drawn inputs                                 *)
(***************************************************************************)
SeqIdle ==
    /\ seq = <<>> /\ rc1 = <<>> /\ rc2 = <<>> /\ gc = Nothing
    /\ seq2 = <<>> /\ gc2 = Nothing /\ spc = "idle"

NormIdle == full_seq2 = <<>> /\ target_seq2 = <<>> /\ outcome2 = Nothing

AppIdle ==
    /\ seq_input = <<>> /\ target_input = <<>>
    /\ f_len_input = 0 /\ r_len_input = 0
    /\ f_enzyme_box = "" /\ r_enzyme_box = ""
    /\ results = Nothing /\ table = <<>> /\ shown = Nothing /\ last_ok = Nothing

InitDesign ==
    /\ full_seq \in Sources
    /\ target_seq \in Targets
    /\ f_len = 0 /\ r_len = 0
    /\ f_enzyme = "EcoRI" /\ r_enzyme = "EcoRI"
    /\ outcome = Nothing
    /\ dpc = "ready"
    /\ SeqIdle /\ NormIdle /\ AppIdle

Call(lens, enzymes) ==
    /\ dpc = "ready"
    /\ \E fl \in lens, rl \in lens, fe \in enzymes, re \in enzymes :
        /\ f_len' = fl /\ r_len' = rl /\ f_enzyme' = fe /\ r_enzyme' = re
        /\ outcome' = design_primers(full_seq, target_seq, fl, rl, fe, re)
    /\ dpc' = "done"
    /\ UNCHANGED <<full_seq, target_seq, seqVars, normVars, appVars>>

CallDesignPrimers == Call(PrimerLens, DesignEnzymes)

NextDesign == CallDesignPrimers

SpecDesign == InitDesign /\ [][NextDesign]_vars

(***************************************************************************)
(* What the claims about design_primers speak of                           *)
(***************************************************************************)
\* the 0-based offsets at which sub occurs in s
Occurrences(s, sub) ==
    {i \in 0..(Len(s) - Len(sub)) : SubSeq(s, i + 1, i + Len(sub)) = sub}

Least(S) == CHOOSE i \in S : \A j \in S : i <= j

\* The call's inputs as the claims see them: the normalized strings, whether
\* the target occurs, the number of bases before its first occurrence and
\* after it, and the windows of f_len and r_len bases on either side.
CallView ==
    LET source == StripWhitespace(Upper(full_seq))
        target == StripWhitespace(Upper(target_seq))
        offsets == Occurrences(source, target)
        before == IF offsets = {} THEN -1 ELSE Least(offsets)
        after == Len(source) - before - Len(target)
    IN  [source |-> source,
         end |-> before + Len(target),
         occurs |-> offsets # {},
         count |-> Cardinality(offsets),
         before |-> before,
         after |-> after]

\* the f_len bases that end where the first occurrence starts, and the r_len
\* bases that start where it ends (when that many bases are there)
WindowBefore(v) == SubSeq(v.source, v.before - f_len + 1, v.before)
WindowAfter(v) == SubSeq(v.source, v.end + 1, v.end + r_len)

Returned == dpc = "done" /\ outcome.kind = "return"
Raised(msg) == dpc = "done" /\ outcome = Raise("ValueError", msg)
ForwardSequence == outcome.value[1][2]
ReverseSequence == outcome.value[2][2]
ForwardSite == RESTRICTION_ENZYMES[f_enzyme]
ReverseSite == RESTRICTION_ENZYMES[r_enzyme]

\* C1 as stated: whenever design_primers returns, the Sequence of row Forward is
\* the f_len-base window before the first occurrence of the target, and the
\* Sequence of row Reverse is the reverse complement of the r_len-base window
\* after it.
C1_PrimersAreWindows ==
    Returned =>
        LET v == CallView
        IN  /\ ForwardSequence = WindowBefore(v)
            /\ ReverseSequence = reverse_complement(WindowAfter(v))

\* C1 amended: whenever design_primers returns, the Sequence of row Forward is
\* the forward enzyme's site followed by the f_len-base window before the first
\* occurrence of the target, and the Sequence of row Reverse is the reverse
\* enzyme's site followed by the reverse complement of the r_len-base window
\* after it.
C1_PrimersAreSitePlusWindows ==
    Returned =>
        LET v == CallView
        IN  /\ ForwardSequence = ForwardSite \o WindowBefore(v)
            /\ ReverseSequence = ReverseSite \o reverse_complement(WindowAfter(v))

C1_Witness ==
    /\ Returned
    /\ f_len >= 2 /\ r_len >= 2
    /\ LET v == CallView
       IN  /\ WindowBefore(v) # reverse_complement(WindowBefore(v))
           /\ WindowAfter(v) # reverse_complement(WindowAfter(v))
           /\ v.count >= 2

\* C2: no truncated primer.  If the target occurs and fewer than f_len bases
\* precede its first occurrence or fewer than r_len follow it, design_primers
\* raises the insufficient-flank ValueError; and whenever it returns, f_len
\* bases were there before the target and r_len after it, and each primer is
\* its site plus exactly that many bases (column Length agrees).
C2_NoTruncatedPrimer ==
    dpc = "done" =>
        LET v == CallView
        IN  /\ (v.occurs /\ (v.before < f_len \/ v.after < r_len))
                  => outcome = Raise("ValueError", MsgFlank)
            /\ outcome.kind = "return" =>
                  /\ v.occurs /\ v.before >= f_len /\ v.after >= r_len
                  /\ Len(ForwardSequence) = Len(ForwardSite) + f_len
                  /\ Len(ReverseSequence) = Len(ReverseSite) + r_len
                  /\ outcome.value[1][3] = Int_(Len(ForwardSite) + f_len)
                  /\ outcome.value[2][3] = Int_(Len(ReverseSite) + r_len)

C2_Witness ==
    /\ Raised(MsgFlank)
    /\ r_len > 0
    /\ LET v == CallView
       IN  v.occurs /\ v.before = f_len - 1 /\ v.after > r_len

C7_FlankErrorOnlyWhenInsufficient ==
    dpc = "done" =>
        LET v == CallView
        IN  (v.occurs /\ v.before >= f_len /\ v.after >= r_len)
                => outcome # Raise("ValueError", MsgFlank)

\* C8: whenever design_primers returns, each primer's enzyme site occurs in
\* the primer's final sequence exactly once, at offset 0.
C8_SiteOccursOnce ==
    Returned =>
        /\ Occurrences(ForwardSequence, ForwardSite) = {0}
        /\ Occurrences(ReverseSequence, ReverseSite) = {0}

(***************************************************************************)
(* Calls of design_primers on raw text, and on the same text retyped       *)
(***************************************************************************)
RawChars == {"A", "c", " "}
RawSources == SeqsUpTo(RawChars, MaxRawLen)
RawTargets == SeqsUpTo(RawChars, 1) \cup {<<"a", " ", "C">>}
RawPrimerLens == 0..MaxRawPrimerLen
RawEnzymes == {"EcoRI"}

\* one change a user makes to a text that leaves its bases alone: the case of
\* one letter, one whitespace character more, or one less
SwapCaseAt(s, i) == [s EXCEPT ![i] = SwapCaseChar(s[i])]
InsertAt(s, i, c) == SubSeq(s, 1, i) \o <<c>> \o SubSeq(s, i + 1, Len(s))
RemoveAt(s, i) == SubSeq(s, 1, i - 1) \o SubSeq(s, i + 1, Len(s))

Retypings(s) ==
    {SwapCaseAt(s, i) : i \in {j \in 1..Len(s) : s[j] \in Letters}}
    \cup {InsertAt(s, i, c) : i \in 0..Len(s), c \in Whitespace}
    \cup {RemoveAt(s, i) : i \in {j \in 1..Len(s) : s[j] \in Whitespace}}

InitNorm ==
    /\ full_seq \in RawSources
    /\ target_seq \in RawTargets
    /\ f_len = 0 /\ r_len = 0
    /\ f_enzyme = "EcoRI" /\ r_enzyme = "EcoRI"
    /\ outcome = Nothing
    /\ dpc = "ready"
    /\ full_seq2 = full_seq /\ target_seq2 = target_seq /\ outcome2 = Nothing
    /\ SeqIdle /\ AppIdle

CallOnRaw ==
    /\ Call(RawPrimerLens, RawEnzymes)

CallOnRetypedSource ==
    /\ dpc = "done"
    /\ \E s \in Retypings(full_seq) :
        /\ full_seq2' = s
        /\ outcome2' = design_primers(s, target_seq, f_len, r_len, f_enzyme, r_enzyme)
    /\ dpc' = "again"
    /\ UNCHANGED <<full_seq, target_seq, f_len, r_len, f_enzyme, r_enzyme, outcome,
                   target_seq2, seqVars, appVars>>

CallOnRetypedTarget ==
    /\ dpc = "done"
    /\ \E t \in Retypings(target_seq) :
        /\ target_seq2' = t
        /\ outcome2' = design_primers(full_seq, t, f_len, r_len, f_enzyme, r_enzyme)
    /\ dpc' = "again"
    /\ UNCHANGED <<full_seq, target_seq, f_len, r_len, f_enzyme, r_enzyme, outcome,
                   full_seq2, seqVars, appVars>>

NextNorm == CallOnRaw \/ CallOnRetypedSource \/ CallOnRetypedTarget

SpecNorm == InitNorm /\ [][NextNorm]_vars

\* C6: a call on the source or the target with the case of a letter changed,
\* or a whitespace character inserted or removed, has the outcome of the call
\* on the original text: the same rows, or the same error.
C6_OutcomeIgnoresCaseAndWhitespace ==
    dpc = "again" => outcome2 = outcome

C6_Witness ==
    /\ dpc = "again"
    /\ outcome.kind = "return"
    /\ f_len > 0
    /\ \E i \in 1..Len(full_seq) : full_seq[i] \in LowerLetters
    /\ \E i \in 1..Len(full_seq) : full_seq[i] \in Whitespace
    /\ Len(full_seq2) < Len(full_seq)

(***************************************************************************)
(* The pure functions on drawn sequences                                   *)
(***************************************************************************)
DesignIdle ==
    /\ full_seq = <<>> /\ target_seq = <<>> /\ f_len = 0 /\ r_len = 0
    /\ f_enzyme = "" /\ r_enzyme = "" /\ outcome = Nothing /\ dpc = "idle"

InitSeq ==
    /\ seq \in SeqsUpTo(Letters, MaxSeqLen)
    /\ rc1 = <<>> /\ rc2 = <<>>
    /\ gc = Nothing
    /\ seq2 = seq /\ gc2 = Nothing
    /\ spc = "start"
    /\ DesignIdle /\ NormIdle /\ AppIdle

ReverseComplementOnce ==
    /\ spc = "start"
    /\ rc1' = reverse_complement(seq)
    /\ spc' = "rc1"
    /\ UNCHANGED <<seq, rc2, gc, seq2, gc2, designVars, normVars, appVars>>

ReverseComplementTwice ==
    /\ spc = "rc1"
    /\ rc2' = reverse_complement(rc1)
    /\ spc' = "rc2"
    /\ UNCHANGED <<seq, rc1, gc, seq2, gc2, designVars, normVars, appVars>>

CalcGC ==
    /\ spc = "start"
    /\ gc' = calc_gc_content(seq)
    /\ spc' = "gc"
    /\ UNCHANGED <<seq, rc1, rc2, seq2, gc2, designVars, normVars, appVars>>

\* the same sequence with the letters at some positions in the other case
CalcGCInOtherCase ==
    /\ spc = "gc"
    /\ \E P \in SUBSET (1..Len(seq)) :
        /\ seq2' = [i \in 1..Len(seq) |-> IF i \in P THEN SwapCaseChar(seq[i]) ELSE seq[i]]
        /\ gc2' = calc_gc_content(seq2')
    /\ spc' = "gc2"
    /\ UNCHANGED <<seq, rc1, rc2, gc, designVars, normVars, appVars>>

NextSeq ==
    \/ ReverseComplementOnce
    \/ ReverseComplementTwice
    \/ CalcGC
    \/ CalcGCInOtherCase

SpecSeq == InitSeq /\ [][NextSeq]_vars

OverBases(s) == \A i \in 1..Len(s) : s[i] \in Bases

\* C4: for every sequence over A, C, G, T, the empty one included, the
\* reverse complement of its reverse complement is the sequence itself.
C4_ReverseComplementInvolution ==
    (spc = "rc2" /\ OverBases(seq)) => rc2 = seq

C4_Witness ==
    /\ spc = "rc2"
    /\ OverBases(seq)
    /\ Len(seq) = MaxSeqLen
    /\ rc1 # seq
    /\ Cardinality({seq[i] : i \in 1..Len(seq)}) >= 2

\* C5: for every non-empty sequence of letters the GC content lies between 0
\* and 100 (0 and 10000 hundredths), and it is the GC content of the sequence
\* with any of its letters in the other case.
C5_GCInRangeAndCaseInvariant ==
    (spc \in {"gc", "gc2"} /\ Len(seq) > 0) =>
        /\ DOMAIN gc = {"centi"}
        /\ gc.centi \in 0..10000
        /\ spc = "gc2" => gc2 = gc

C5_Witness ==
    /\ spc = "gc2"
    /\ seq2 # seq
    /\ gc.centi \notin {0, 10000}
    /\ \E i \in 1..Len(seq) : seq[i] \in {"g", "c"}
    /\ \E i \in 1..Len(seq) : seq[i] \in {"G", "C"}

(***************************************************************************)
(* PrimerApp                                                               *)
(***************************************************************************)
SpinMin == 10
SpinMax == 40
SpinDefault == 20

\* str(n) for an int n >= 0
RECURSIVE Digits(_)
Digits(n) ==
    LET d == <<"0", "1", "2", "3", "4", "5", "6", "7", "8", "9">>[(n % 10) + 1]
    IN  IF n < 10 THEN <<d>> ELSE Digits(n \div 10) \o <<d>>

\* str(v) for a numeric column: an int prints its digits; a float rounded to
\* two places prints its shortest form, without a trailing zero in the second
\* place
Str(v) ==
    IF "int" \in DOMAIN v THEN Digits(v.int)
    ELSE LET h == v.centi
             tenths == Digits((h % 100) \div 10)
             hundredths == IF h % 10 = 0 THEN <<>> ELSE Digits(h % 10)
         IN  Digits(h \div 100) \o <<".">> \o tenths \o hundredths

\* the items generate_primers puts in one row of the table
TableRow(row) == [j \in 1..Len(row) |-> IF j <= 2 THEN row[j] ELSE Str(row[j])]

\* the text show_fasta_popup puts in its dialog
Fasta(forward, reverse) ==
    <<">Forward_Primer", "\n">> \o forward \o <<"\n", ">Reverse_Primer", "\n">> \o reverse

Rep(c, n) == [i \in 1..n |-> c]

\* texts pasted in the two boxes: a gene with flanks too short for any primer
\* length, a gene with flanks long enough for the default length, targets that
\* occur in the genes or not, and nothing
AppGene(n, m) == Rep("a", n) \o <<"G", "G", "T", "\n">> \o Rep("C", m)
AppSources == {<<>>, AppGene(SpinMin - 1, SpinMin - 1), AppGene(SpinDefault + 1, SpinDefault + 1)}
AppTargets == {<<>>, <<"g", "g", "t">>, <<"T", "T">>}
AppLens == {n \in SpinMin..SpinMax : n <= SpinMin + MaxSpinSteps}
AppEnzymes == {EnzymeItems[1], EnzymeItems[2]}

InitApp ==
    /\ seq_input = <<>>
    /\ target_input = <<>>
    /\ f_len_input = SpinDefault
    /\ r_len_input = SpinDefault
    /\ f_enzyme_box = EnzymeItems[1]
    /\ r_enzyme_box = EnzymeItems[1]
    /\ results = Nothing
    /\ table = <<>>
    /\ shown = Nothing
    /\ last_ok = Nothing
    /\ DesignIdle /\ NormIdle /\ SeqIdle

EditSeqInput ==
    /\ \E t \in AppSources : seq_input' = t
    /\ UNCHANGED <<target_input, f_len_input, r_len_input, f_enzyme_box, r_enzyme_box,
                   results, table, shown, last_ok, seqVars, designVars, normVars>>

EditTargetInput ==
    /\ \E t \in AppTargets : target_input' = t
    /\ UNCHANGED <<seq_input, f_len_input, r_len_input, f_enzyme_box, r_enzyme_box,
                   results, table, shown, last_ok, seqVars, designVars, normVars>>

SetFLen ==
    /\ \E n \in AppLens : f_len_input' = n
    /\ UNCHANGED <<seq_input, target_input, r_len_input, f_enzyme_box, r_enzyme_box,
                   results, table, shown, last_ok, seqVars, designVars, normVars>>

SetRLen ==
    /\ \E n \in AppLens : r_len_input' = n
    /\ UNCHANGED <<seq_input, target_input, f_len_input, f_enzyme_box, r_enzyme_box,
                   results, table, shown, last_ok, seqVars, designVars, normVars>>

SelectFEnzyme ==
    /\ \E e \in AppEnzymes : f_enzyme_box' = e
    /\ UNCHANGED <<seq_input, target_input, f_len_input, r_len_input, r_enzyme_box,
                   results, table, shown, last_ok, seqVars, designVars, normVars>>

SelectREnzyme ==
    /\ \E e \in AppEnzymes : r_enzyme_box' = e
    /\ UNCHANGED <<seq_input, target_input, f_len_input, r_len_input, f_enzyme_box,
                   results, table, shown, last_ok, seqVars, designVars, normVars>>

\* generate_primers clearing the table before it calls design_primers
generate_primers_ClearsTable ==
    /\ \E out \in {design_primers(seq_input, target_input, f_len_input, r_len_input,
                                  f_enzyme_box, r_enzyme_box)} :
        IF out.kind = "return"
        THEN /\ results' = out.value
             /\ table' = [i \in 1..Len(out.value) |-> TableRow(out.value[i])]
             /\ shown' = Nothing
             /\ last_ok' = out.value
        ELSE /\ shown' = [dialog |-> "warning", text |-> out.msg]
             /\ table' = <<>>
             /\ UNCHANGED <<results, last_ok>>
    /\ UNCHANGED <<seq_input, target_input, f_len_input, r_len_input, f_enzyme_box,
                   r_enzyme_box, seqVars, designVars, normVars>>

\* last_ok is history: the rows of the most recent call of design_primers that
\* returned, whatever the handler did with them
generate_primers ==
    /\ \E out \in {design_primers(seq_input, target_input, f_len_input, r_len_input,
                                  f_enzyme_box, r_enzyme_box)} :
        IF out.kind = "return"
        THEN /\ results' = out.value
             /\ table' = [i \in 1..Len(out.value) |-> TableRow(out.value[i])]
             /\ shown' = Nothing
             /\ last_ok' = out.value
        ELSE /\ shown' = [dialog |-> "warning", text |-> out.msg]
             /\ UNCHANGED <<results, table, last_ok>>
    /\ UNCHANGED <<seq_input, target_input, f_len_input, r_len_input, f_enzyme_box,
                   r_enzyme_box, seqVars, designVars, normVars>>

Notice == [dialog |-> "information", text |-> "generate primers first"]

\* show_fasta with no results stored taken for empty primers
show_fasta_NoGuard ==
    /\ IF results = Nothing
       THEN shown' = [dialog |-> "fasta", text |-> Fasta(<<>>, <<>>)]
       ELSE shown' = [dialog |-> "fasta", text |-> Fasta(results[1][2], results[2][2])]
    /\ UNCHANGED <<seq_input, target_input, f_len_input, r_len_input, f_enzyme_box,
                   r_enzyme_box, results, table, last_ok, seqVars, designVars, normVars>>

show_fasta ==
    /\ IF results = Nothing
       THEN shown' = Notice
       ELSE shown' = [dialog |-> "fasta", text |-> Fasta(results[1][2], results[2][2])]
    /\ UNCHANGED <<seq_input, target_input, f_len_input, r_len_input, f_enzyme_box,
                   r_enzyme_box, results, table, last_ok, seqVars, designVars, normVars>>

\* run_blast keeps its own failures to itself: the lookup either opens the
\* browser or prints that it failed
run_blast_align ==
    /\ IF results = Nothing
       THEN shown' = Notice
       ELSE \E ok \in BOOLEAN :
               shown' = [dialog |-> "blast", query |-> results[1][2], opened |-> ok]
    /\ UNCHANGED <<seq_input, target_input, f_len_input, r_len_input, f_enzyme_box,
                   r_enzyme_box, results, table, last_ok, seqVars, designVars, normVars>>

NextApp ==
    \/ EditSeqInput
    \/ EditTargetInput
    \/ SetFLen
    \/ SetRLen
    \/ SelectFEnzyme
    \/ SelectREnzyme
    \/ generate_primers
    \/ show_fasta
    \/ run_blast_align

SpecApp == InitApp /\ [][NextApp]_vars

Showing(d) == "dialog" \in DOMAIN shown /\ shown.dialog = d

\* C9: the FASTA dialog and the BLAST lookup appear only once some generation
\* has succeeded, and then with the primers of the most recent successful
\* generation; the "generate primers first" notice appears only while none
\* has succeeded.
C9_DialogsUseLastGeneration ==
    /\ Showing("fasta") =>
          /\ last_ok # Nothing
          /\ shown.text = Fasta(last_ok[1][2], last_ok[2][2])
    /\ Showing("blast") =>
          /\ last_ok # Nothing
          /\ shown.query = last_ok[1][2]
    /\ Showing("information") => last_ok = Nothing

\* the FASTA dialog is up with the primers of an earlier generation, while
\* the form's present inputs are ones design_primers rejects
C9_Witness ==
    /\ Showing("fasta")
    /\ last_ok # Nothing
    /\ design_primers(seq_input, target_input, f_len_input, r_len_input,
                      f_enzyme_box, r_enzyme_box).kind = "raise"

DigitValue(c) ==
    CHOOSE n \in 0..9 : <<"0", "1", "2", "3", "4", "5", "6", "7", "8", "9">>[n + 1] = c

RECURSIVE ReadDigits(_)
ReadDigits(s) ==
    IF s = <<>> THEN 0 ELSE 10 * ReadDigits(SubSeq(s, 1, Len(s) - 1)) + DigitValue(s[Len(s)])

\* the number a table item reads as, in hundredths
ReadItem(s) ==
    LET points == {i \in 1..Len(s) : s[i] = "."}
    IN  IF points = {} THEN 100 * ReadDigits(s)
        ELSE LET p == CHOOSE i \in points : TRUE
                 frac == SubSeq(s, p + 1, Len(s))
             IN  100 * ReadDigits(SubSeq(s, 1, p - 1))
                 + (IF Len(frac) = 1 THEN 10 * ReadDigits(frac) ELSE ReadDigits(frac))

Hundredths(v) == IF "int" \in DOMAIN v THEN 100 * v.int ELSE v.centi

\* a row of table items shows a row of results: the name and the sequence as
\* they are, each number as text that reads as that number, with a decimal
\* point exactly when the number is a float
RowShows(items, row) ==
    /\ Len(items) = Len(row)
    /\ items[1] = row[1]
    /\ items[2] = row[2]
    /\ \A j \in 3..Len(row) :
          /\ ReadItem(items[j]) = Hundredths(row[j])
          /\ ("." \in {items[j][k] : k \in 1..Len(items[j])}) <=> ("centi" \in DOMAIN row[j])

\* C10: the stored results are those of the most recent successful generation
\* (none before the first), and the table is empty when none are stored and
\* otherwise shows exactly the stored rows; a generation that fails changes
\* neither.
C10_TableShowsStoredResults ==
    /\ results = last_ok
    /\ IF results = Nothing THEN table = <<>>
       ELSE /\ Len(table) = Len(results)
            /\ \A i \in 1..Len(results) : RowShows(table[i], results[i])

\* a generation has failed after one that succeeded
C10_Witness ==
    /\ Showing("warning")
    /\ results # Nothing
    /\ table # <<>>
    /\ \E j \in 3..7 : "centi" \in DOMAIN results[1][j] /\ results[1][j].centi % 10 # 0

====
